---- MODULE Spec2Model ----
(***************************************************************************)
(* Model of tooltip.js: a script that looks up the element with id         *)
(* 'tooltip' once, enumerates the document's path elements once, and       *)
(* registers a mousemove and a mouseleave listener on each.  The state is  *)
(* the part of the document the script reads and writes: the overlay's     *)
(* inline style and child nodes, the path elements with their              *)
(* data-inflation attributes and the listeners registered on them.         *)
(*                                                                         *)
(* Strings that the script builds or that the host parses are sequences of *)
(* one-character strings, so that the markup parse performed by the        *)
(* innerHTML setter is computed and not assumed to be the identity.        *)
(***************************************************************************)
EXTENDS Integers, Sequences, FiniteSets, TLC

VARIABLES
  hasTooltip,  \* TRUE iff getElementById('tooltip') returned an element (else null)
  overlay,     \* that element's style.left, style.top, style.display and child nodes
  paths,       \* the path elements currently in the document
  listeners,   \* per element, the number of listeners of each type registered on it
  attr,        \* per element, its data-inflation attribute (present or missing)
  step,        \* the transition that produced this state and how its handler ended
  ev,          \* the most recent pointer event given to a handler
  lastMove,    \* the most recent mousemove event given to a handler
  leaves,      \* mouseleave handler calls since the last mousemove one (2 = two or more)
  overlay2,    \* a second run of the page over the same document: its overlay,
  ev2,         \*   its most recent pointer event
  lastMove2    \*   and its most recent mousemove event

vars == <<hasTooltip, overlay, paths, listeners, attr, step, ev, lastMove, leaves,
          overlay2, ev2, lastMove2>>

-----------------------------------------------------------------------------
(* Bounds and the document the script is loaded into.                      *)

\* Pointer page coordinates range over 0..MaxCoord.
MaxCoord == 1

PageCoords == 0..MaxCoord

\* The fixed offset added to pageX and pageY.
Offset == 10

\* Path elements present when the script runs, and one added afterwards.
StartupPaths == {"CA", "TX"}

LatePaths == {"NV"}

Elements == StartupPaths \cup LatePaths

\* element.id, as a sequence of characters.
IdOf(r) ==
  CASE r = "CA" -> <<"C", "A">>
    [] r = "TX" -> <<"T", "X">>
    [] r = "NV" -> <<"N", "V">>

\* Values a data-inflation attribute may hold: a plain figure, a figure
\* starting with a less-than sign, and a figure wrapped in markup.
DataValues ==
  { <<"3", ".", "2", "%">>,
    <<"<", "1", "%">>,
    <<"<", "b", ">", "4", "%">> }

\* An attribute is either missing or present with a string value.
NoAttr == [present |-> FALSE, value |-> <<>>]

AttrValues == {NoAttr} \cup {[present |-> TRUE, value |-> v] : v \in DataValues}

\* The attribute of the element added later; no handler ever reads it.
LateAttr == [present |-> TRUE, value |-> <<"<", "b", ">", "4", "%">>]

Letters == {"A", "C", "N", "T", "V", "X", "b", "l", "n", "u"}

-----------------------------------------------------------------------------
(* Host operations the script calls.                                       *)

\* element.getAttribute('data-inflation'): the value, or null when missing.
GetAttribute(a, r) == a[r]

\* Conversion of a getAttribute result inside a template literal: null
\* becomes the four characters "null".
ToStr(v) == IF v.present THEN v.value ELSE <<"n", "u", "l", "l">>

\* The template literal `${state.id}: ${value}`.
Template(id, v) == id \o <<":", " ">> \o ToStr(v)

\* The expression  n + 10 + 'px'  : numeric addition, then concatenation.
Px(n) == ToString(n + Offset) \o "px"

CharToken(c) == [kind |-> "char", data |-> <<c>>]

TagToken(name) == [kind |-> "tag", data |-> name]

RECURSIVE DataState(_, _)
RECURSIVE TagOpenState(_, _)
RECURSIVE TagNameState(_, _, _)

\* HTML tokenizer, data state: a less-than sign opens a tag, any other
\* character is character data.
DataState(s, i) ==
  IF i > Len(s) THEN <<>>
  ELSE IF s[i] = "<" THEN TagOpenState(s, i + 1)
  ELSE <<CharToken(s[i])>> \o DataState(s, i + 1)

\* Tag open state: a letter starts a tag name; at the end of input, or before
\* any other character, the less-than sign is character data and the
\* character is read again in the data state.
TagOpenState(s, i) ==
  IF i > Len(s) THEN <<CharToken("<")>>
  ELSE IF s[i] \in Letters THEN TagNameState(s, i, <<>>)
  ELSE <<CharToken("<")>> \o DataState(s, i)

\* Tag name state: the name runs to the next greater-than sign, which emits
\* the start tag; a tag cut off by the end of input is dropped.
TagNameState(s, i, name) ==
  IF i > Len(s) THEN <<>>
  ELSE IF s[i] = ">" THEN <<TagToken(name)>> \o DataState(s, i + 1)
  ELSE TagNameState(s, i + 1, Append(name, s[i]))

\* The innerHTML setter: the element's children are replaced by the nodes the
\* fragment parser builds from the string, here in document order.
ParseFragment(s) == DataState(s, 1)

RECURSIVE TextContent(_)
\* The character data of a node list: what the overlay shows as text.
TextContent(nodes) ==
  IF nodes = <<>> THEN <<>>
  ELSE (IF Head(nodes).kind = "char" THEN Head(nodes).data ELSE <<>>)
       \o TextContent(Tail(nodes))

-----------------------------------------------------------------------------
(* The script.                                                             *)

\* The overlay before any handler has run: no inline style, no children.
InitialOverlay == [left |-> "", top |-> "", display |-> "", children |-> <<>>]

\* querySelectorAll('path').forEach: one listener of each type on every path
\* element of the document, none on anything else.
RegisterAll(ps) ==
  [r \in Elements |->
     IF r \in ps THEN [mousemove |-> 1, mouseleave |-> 1]
     ELSE [mousemove |-> 0, mouseleave |-> 0]]

\* As if one delegated listener on the document served every path element.
HasListener_Delegated(l, r, type) == TRUE

\* Whether the host has a listener of this type to call for an event on r.
HasListener(l, r, type) ==
  IF type = "mousemove" THEN l[r].mousemove > 0 ELSE l[r].mouseleave > 0

\* As if the handlers guarded the overlay with optional chaining.
Outcome_Guarded(has) == "returned"

\* How a handler ends: reading tooltip.style of null throws a TypeError.
Outcome(has) == IF has THEN "returned" ELSE "TypeError"

\* As if pageX were written to top and pageY to left.
MouseMoveHandler_Swapped(ov, a, r, x, y) ==
  [left     |-> Px(y),
   top      |-> Px(x),
   display  |-> "block",
   children |-> ParseFragment(Template(IdOf(r), GetAttribute(a, r)))]

\* As if the handler returned early on a missing attribute.
MouseMoveHandler_SkipsMissing(ov, a, r, x, y) ==
  IF ~GetAttribute(a, r).present THEN ov
  ELSE [left     |-> Px(x),
        top      |-> Px(y),
        display  |-> "block",
        children |-> ParseFragment(Template(IdOf(r), GetAttribute(a, r)))]

\* As if the content were written only when the overlay was not yet shown.
MouseMoveHandler_KeepsShown(ov, a, r, x, y) ==
  [left     |-> Px(x),
   top      |-> Px(y),
   display  |-> "block",
   children |-> IF ov.display = "block" THEN ov.children
                ELSE ParseFragment(Template(IdOf(r), GetAttribute(a, r)))]

\* Body of the mousemove listener of element r, for an event at page (x, y).
MouseMoveHandler(ov, a, r, x, y) ==
  LET value == GetAttribute(a, r)
  IN  [left     |-> Px(x),
       top      |-> Px(y),
       display  |-> "block",
       children |-> ParseFragment(Template(IdOf(r), value))]

\* As if the handler cleared the inline display instead of setting 'none'.
MouseLeaveHandler_ClearsInline(ov) == [ov EXCEPT !.display = ""]

\* As if the handler also emptied the overlay.
MouseLeaveHandler_Empties(ov) == [ov EXCEPT !.display = "none", !.children = <<>>]

\* As if the handler toggled the overlay.
MouseLeaveHandler_Toggles(ov) ==
  [ov EXCEPT !.display = IF ov.display = "none" THEN "block" ELSE "none"]

\* Body of the mouseleave listener.
MouseLeaveHandler(ov) == [ov EXCEPT !.display = "none"]

NoEvent == [type |-> "none", target |-> "", value |-> NoAttr, x |-> 0, y |-> 0]

Init ==
  /\ hasTooltip \in BOOLEAN
  /\ overlay = InitialOverlay
  /\ paths = StartupPaths
  /\ listeners = RegisterAll(StartupPaths)
  /\ attr \in {a \in [Elements -> AttrValues] :
                  \A r \in LatePaths : a[r] = LateAttr}
  /\ step = [type |-> "load", target |-> "", outcome |-> "returned"]
  /\ ev = NoEvent
  /\ lastMove = NoEvent
  /\ leaves = 0
  /\ overlay2 = InitialOverlay
  /\ ev2 = NoEvent
  /\ lastMove2 = NoEvent

\* The host dispatches a mousemove at page (x, y) over path element r.
MouseMove(r, x, y) ==
  /\ r \in paths
  /\ IF HasListener(listeners, r, "mousemove")
     THEN LET e == [type |-> "mousemove", target |-> r,
                    value |-> GetAttribute(attr, r), x |-> x, y |-> y]
          IN  /\ overlay' = IF hasTooltip
                            THEN MouseMoveHandler(overlay, attr, r, x, y)
                            ELSE overlay
              /\ step' = [type |-> "mousemove", target |-> r,
                          outcome |-> Outcome(hasTooltip)]
              /\ ev' = e
              /\ lastMove' = e
              /\ leaves' = 0
     ELSE /\ step' = [type |-> "mousemove", target |-> r, outcome |-> "nolistener"]
          /\ UNCHANGED <<overlay, ev, lastMove, leaves>>
  /\ UNCHANGED <<hasTooltip, paths, listeners, attr, overlay2, ev2, lastMove2>>

\* The host dispatches a mouseleave on path element r.
MouseLeave(r) ==
  /\ r \in paths
  /\ IF HasListener(listeners, r, "mouseleave")
     THEN /\ overlay' = IF hasTooltip THEN MouseLeaveHandler(overlay) ELSE overlay
          /\ step' = [type |-> "mouseleave", target |-> r,
                      outcome |-> Outcome(hasTooltip)]
          /\ ev' = [type |-> "mouseleave", target |-> r,
                    value |-> GetAttribute(attr, r), x |-> 0, y |-> 0]
          /\ leaves' = IF leaves = 0 THEN 1 ELSE 2
          /\ UNCHANGED lastMove
     ELSE /\ step' = [type |-> "mouseleave", target |-> r, outcome |-> "nolistener"]
          /\ UNCHANGED <<overlay, ev, lastMove, leaves>>
  /\ UNCHANGED <<hasTooltip, paths, listeners, attr, overlay2, ev2, lastMove2>>

\* The page adds a path element after the script has run; the script has no
\* code that runs then.
AddPath(r) ==
  /\ r \in Elements \ paths
  /\ paths' = paths \cup {r}
  /\ step' = [type |-> "addPath", target |-> r, outcome |-> "returned"]
  /\ UNCHANGED <<hasTooltip, overlay, listeners, attr, ev, lastMove, leaves,
                 overlay2, ev2, lastMove2>>

\* The page sets or removes the data-inflation attribute of an element; the
\* script only ever reads it.
SetAttribute(r, v) ==
  /\ r \in paths \ LatePaths
  /\ attr[r] # v
  /\ attr' = [attr EXCEPT ![r] = v]
  /\ step' = [type |-> "setAttribute", target |-> r, outcome |-> "returned"]
  /\ UNCHANGED <<hasTooltip, overlay, paths, listeners, ev, lastMove, leaves,
                 overlay2, ev2, lastMove2>>

Next ==
  \/ \E r \in Elements, x \in PageCoords, y \in PageCoords : MouseMove(r, x, y)
  \/ \E r \in Elements : MouseLeave(r)
  \/ \E r \in Elements : AddPath(r)
  \/ \E r \in Elements, v \in AttrValues : SetAttribute(r, v)

Spec == Init /\ [][Next]_vars

-----------------------------------------------------------------------------
(* Two runs of the page over one document, each with its own history of    *)
(* pointer events: the first run is overlay/ev/lastMove, the second is     *)
(* overlay2/ev2/lastMove2.  The document does not change during the runs.  *)

MouseMoveTwin(r, x, y) ==
  /\ r \in paths
  /\ HasListener(listeners, r, "mousemove")
  /\ overlay2' = IF hasTooltip
                 THEN MouseMoveHandler(overlay2, attr, r, x, y)
                 ELSE overlay2
  /\ ev2' = [type |-> "mousemove", target |-> r,
             value |-> GetAttribute(attr, r), x |-> x, y |-> y]
  /\ lastMove2' = ev2'
  /\ UNCHANGED <<hasTooltip, overlay, paths, listeners, attr, step, ev, lastMove,
                 leaves>>

MouseLeaveTwin(r) ==
  /\ r \in paths
  /\ HasListener(listeners, r, "mouseleave")
  /\ overlay2' = IF hasTooltip THEN MouseLeaveHandler(overlay2) ELSE overlay2
  /\ ev2' = [type |-> "mouseleave", target |-> r,
             value |-> GetAttribute(attr, r), x |-> 0, y |-> 0]
  /\ UNCHANGED <<hasTooltip, overlay, paths, listeners, attr, step, ev, lastMove,
                 leaves, lastMove2>>

NextPair ==
  \/ \E r \in Elements, x \in PageCoords, y \in PageCoords : MouseMove(r, x, y)
  \/ \E r \in Elements : MouseLeave(r)
  \/ \E r \in Elements, x \in PageCoords, y \in PageCoords : MouseMoveTwin(r, x, y)
  \/ \E r \in Elements : MouseLeaveTwin(r)

SpecPair == Init /\ [][NextPair]_vars

-----------------------------------------------------------------------------
(* Properties.                                                             *)

\* The state is the one a handler call of this type has just returned into.
Handled(type) ==
  hasTooltip /\ step.type = type /\ step.outcome = "returned"

\* The characters of "<id>: <v>".
Label(r, v) == IdOf(r) \o <<":", " ">> \o v

\* C1: after a mousemove over a region whose data-inflation attribute has
\* value V, the overlay is shown and its text is exactly "<R.id>: <V>".
C1_MoveShowsIdAndValue ==
  (Handled("mousemove") /\ attr[step.target].present) =>
    /\ overlay.display = "block"
    /\ TextContent(overlay.children) = Label(step.target, attr[step.target].value)

\* C2: after a mousemove at page (x, y) the overlay's left is x + 10 pixels and
\* its top is y + 10 pixels, whatever they were before.
C2_PositionIsPointerPlusTen ==
  Handled("mousemove") =>
    /\ overlay.left = ToString(ev.x + 10) \o "px"
    /\ overlay.top = ToString(ev.y + 10) \o "px"

C2_Witness ==
  /\ Handled("mousemove")
  /\ ev.x # ev.y
  /\ overlay.left # overlay.top

\* C3: after a mouseleave on any region the overlay's display is 'none', also
\* when the overlay holds the content of another region.
C3_LeaveHides ==
  Handled("mouseleave") => overlay.display = "none"

C3_Witness ==
  /\ Handled("mouseleave")
  /\ lastMove.type = "mousemove"
  /\ lastMove.target # step.target
  /\ overlay.children # <<>>

\* What identifies a pointer event: its type, its region and the region's
\* data value.
Key(e) == [type |-> e.type, target |-> e.target, value |-> e.value]

\* C4 as stated: two histories that end in the same pointer event leave the
\* overlay with the same visibility and the same content.
C4_LastEventDecidesAll ==
  (ev.type # "none" /\ Key(ev) = Key(ev2)) =>
    /\ overlay.display = overlay2.display
    /\ overlay.children = overlay2.children

\* C4 as amended: two histories that end in the same pointer event leave the
\* overlay with the same visibility, and two histories with the same most
\* recent mousemove leave it with the same content.
C4_LastEventDecidesDisplay ==
  /\ (ev.type # "none" /\ Key(ev) = Key(ev2)) =>
       overlay.display = overlay2.display
  /\ (lastMove.type # "none" /\ Key(lastMove) = Key(lastMove2)) =>
       overlay.children = overlay2.children

C4_Witness ==
  /\ hasTooltip
  /\ ev.type = "mouseleave"
  /\ Key(ev) = Key(ev2)
  /\ lastMove.type = "mousemove"
  /\ Key(lastMove) = Key(lastMove2)
  /\ lastMove.x # lastMove2.x
  /\ overlay.children = overlay2.children

\* C5: a mouseleave handler changes the overlay's display and nothing else:
\* the overlay's content, left and top stay as the last mousemove left them,
\* and no region's attribute, listener or membership changes.
C5_LeaveChangesDisplayOnly ==
  [][(hasTooltip /\ step'.type = "mouseleave" /\ step'.outcome = "returned") =>
       /\ overlay'.children = overlay.children
       /\ overlay'.left = overlay.left
       /\ overlay'.top = overlay.top
       /\ attr' = attr
       /\ paths' = paths
       /\ listeners' = listeners]_vars

C5_Witness ==
  /\ Handled("mouseleave")
  /\ lastMove.type = "mousemove"
  /\ lastMove.target = step.target
  /\ overlay.display = "none"
  /\ overlay.children # <<>>
  /\ overlay.left = ToString(lastMove.x + 10) \o "px"

\* C6: a mouseleave that follows a mouseleave, on the same or another region,
\* leaves the whole overlay state as the first one left it.
C6_LeaveIdempotent ==
  [][(hasTooltip /\ leaves >= 1
        /\ step'.type = "mouseleave" /\ step'.outcome = "returned") =>
       overlay' = overlay]_vars

C6_Witness ==
  /\ Handled("mouseleave")
  /\ leaves = 2
  /\ overlay.display = "none"
  /\ overlay.children # <<>>

\* C7: a mousemove over a region without data-inflation attribute shows the
\* overlay at (x + 10, y + 10) with the text "<R.id>: null", never with the
\* value of another region or of an earlier event.
C7_MissingAttributeShowsNull ==
  (Handled("mousemove") /\ ~attr[step.target].present) =>
    /\ overlay.display = "block"
    /\ overlay.left = ToString(ev.x + 10) \o "px"
    /\ overlay.top = ToString(ev.y + 10) \o "px"
    /\ TextContent(overlay.children) = Label(step.target, <<"n", "u", "l", "l">>)
    /\ \A i \in 1..Len(overlay.children) : overlay.children[i].kind = "char"

C7_Witness ==
  /\ Handled("mousemove")
  /\ ~attr[step.target].present
  /\ \E r \in StartupPaths : attr[r].present
  /\ overlay.display = "block"

\* C8: without a 'tooltip' element the listeners are registered all the same,
\* every handler call ends in an error, and no overlay state ever exists.
C8_MissingOverlayThrows ==
  ~hasTooltip =>
    /\ \A r \in StartupPaths :
         listeners[r].mousemove = 1 /\ listeners[r].mouseleave = 1
    /\ overlay = InitialOverlay
    /\ (step.type \in {"mousemove", "mouseleave"} /\ step.outcome # "nolistener") =>
         step.outcome = "TypeError"

C8_Witness ==
  /\ ~hasTooltip
  /\ step.type = "mouseleave"
  /\ step.outcome = "TypeError"
  /\ lastMove.type = "mousemove"

\* C9: exactly the path elements present at startup have one mousemove and
\* one mouseleave listener each, for ever, and a pointer event over an element
\* added later changes nothing of the overlay.
C9_ListenersFixedAtLoad ==
  /\ [](\A r \in Elements :
          /\ listeners[r].mousemove = (IF r \in StartupPaths THEN 1 ELSE 0)
          /\ listeners[r].mouseleave = (IF r \in StartupPaths THEN 1 ELSE 0))
  /\ [][(step'.type \in {"mousemove", "mouseleave"}
           /\ step'.target \notin StartupPaths) =>
          overlay' = overlay]_vars

C9_Witness ==
  /\ hasTooltip
  /\ step.type = "mousemove"
  /\ step.target \in LatePaths
  /\ step.outcome = "nolistener"
  /\ lastMove.type = "mousemove"
  /\ leaves = 1
  /\ overlay.display = "none"

\* C10: once a mousemove has been handled, the overlay's left, top and content
\* all come from the most recent mousemove: its x + 10, its y + 10, and its
\* region's id with the value the region's attribute had at that event.
C10_LastMoveWinsWhole ==
  (hasTooltip /\ lastMove.type = "mousemove") =>
    /\ overlay.left = ToString(lastMove.x + 10) \o "px"
    /\ overlay.top = ToString(lastMove.y + 10) \o "px"
    /\ TextContent(overlay.children) = Label(lastMove.target, ToStr(lastMove.value))

====
